---- MODULE Spec2Model ----
(***************************************************************************)
(* Model of src/src/app/page.js, the MediaPermissionTester component: the  *)
(* React state of the camera and microphone sessions, the refs holding the *)
(* host's stream and track handles, the event log, and the host requests   *)
(* (getUserMedia, applyConstraints) that are in flight between a handler's *)
(* await and its continuation.                                             *)
(*                                                                         *)
(* A handler runs to its first await in one step; the continuation after   *)
(* the await is a second step, taken when the host answers.  The host is   *)
(* the environment: it grants or rejects a request, reports a capability   *)
(* set with or without the torch key, and a track's stop() returns or      *)
(* throws (the code's catch blocks at page.js:107 and :195 handle that).   *)
(***************************************************************************)
EXTENDS Integers, Sequences, FiniteSets, Bags, TLC

\* ---------------------------------------------------------------- bounds
MaxRequests == 3     \* host requests (getUserMedia, applyConstraints) per run
LogBase == 2         \* entries the log may hold when a handler starts
MaxStopCalls == 2    \* stop() calls counted per track (the count saturates)

\* ------------------------------------------------------------ vocabulary
\* useRef(null): a ref that holds no handle.  Handles are 1..MaxRequests; a
\* granted stream has one track, which carries the stream's number.
NULL == 0

\* useState(null) of cameraError / micError: no error stored.
NoError == <<>>

\* error.message || error.name of a rejected host request.
Reasons == {"NotAllowedError", "NotReadableError"}

\* What trackRef.current.getCapabilities yields: a set with the torch key,
\* a set without it, or the method is missing on this host.
Capabilities == {"torch", "noTorch", "noGetCapabilities"}

Streams == 1..MaxRequests

VARIABLES
  mounted,        \* the component is mounted (the cleanup has not run)
  cameraActive, cameraError, torchEnabled, torchSupported,
  videoSrc,       \* videoRef.current.srcObject
  streamRef, trackRef,
  micActive, micError, micRecording, micStreamRef, micTrackRef,
  logs,
  camPending,     \* startCamera calls awaiting getUserMedia
  micPending,     \* startMicrophone calls awaiting getUserMedia
  torchPending,   \* bag of newTorchState values awaiting applyConstraints
  granted,        \* number of streams the host has granted
  live,           \* granted streams whose track has not been stopped
  stopCalls,      \* per track, how many times stop() was invoked on it
  requests,       \* host requests issued so far
  uncaught        \* an exception left a handler uncaught

camVars == <<cameraActive, cameraError, torchEnabled, torchSupported,
             videoSrc, streamRef, trackRef>>
micVars == <<micActive, micError, micRecording, micStreamRef, micTrackRef>>
hostVars == <<camPending, micPending, torchPending, granted, live, stopCalls>>
vars == <<mounted, camVars, micVars, logs, hostVars, requests, uncaught>>

\* ------------------------------------------------------------------ log
\* An addLog that puts the new entry in front of the existing ones.
addLogInFront(prev, message, type) ==
  <<[message |-> message, type |-> type]>> \o prev

\* addLog: one entry {message, type} appended at the end.  The message is
\* the tuple of its text and, where the source interpolates one, the host's
\* reason; the timestamp prefix is not modelled.
addLog(prev, message, type) ==
  Append(prev, [message |-> message, type |-> type])

\* The log is unbounded in the source.  Here the user clears it (clearLogs)
\* before it grows past LogBase entries plus one handler's output: a handler
\* or continuation that appends n entries runs when at most LogBase are held.
Room(n) == n = 0 \/ Len(logs) <= LogBase

RECURSIVE addLogs(_, _)
addLogs(prev, entries) ==
  IF entries = <<>> THEN prev
  ELSE addLogs(addLog(prev, Head(entries)[1], Head(entries)[2]), Tail(entries))

\* ----------------------------------------------------------------- host
\* error.message || error.name of a track.stop() that throws.
StopReasons == {"InvalidStateError"}

\* error.message || error.name of a rejected applyConstraints.
ConstraintReasons == {"OverconstrainedError"}

Min(a, b) == IF a < b THEN a ELSE b

\* track.stop() invoked on track t: one more call counted.
Invoked(sc, t) == [sc EXCEPT ![t] = Min(@ + 1, MaxStopCalls)]

\* The host may make the fail-th stop() of a release throw (0: none does),
\* provided that call is made at all.  It does so only in a release that
\* finds the track never stopped before, which keeps the failures finite.
MayFail(s, t, fail) ==
  \/ fail = 0
  \/ fail = 1 /\ s # NULL /\ stopCalls[s] = 0
  \/ fail = 2 /\ t # NULL /\ stopCalls[t] = 0

\* The release sequence shared by stopCamera, stopMicrophone and the
\* unmount cleanup: stop every track of the held stream and null the stream
\* ref, then stop the held track and null the track ref.  A stop() that
\* throws leaves the rest of the sequence unexecuted.
Release(s, t, fail, lv, sc) ==
  LET call1  == s # NULL
      threw1 == call1 /\ fail = 1
      done1  == call1 /\ ~threw1
      sc1    == IF call1 THEN Invoked(sc, s) ELSE sc
      lv1    == IF done1 THEN lv \ {s} ELSE lv
      s1     == IF done1 THEN NULL ELSE s
      call2  == ~threw1 /\ t # NULL
      threw2 == call2 /\ fail = 2
      done2  == call2 /\ ~threw2
      sc2    == IF call2 THEN Invoked(sc1, t) ELSE sc1
      lv2    == IF done2 THEN lv1 \ {t} ELSE lv1
      t2     == IF done2 THEN NULL ELSE t
  IN  [stream |-> s1, track |-> t2, live |-> lv2, stopCalls |-> sc2,
       threw |-> threw1 \/ threw2, done1 |-> done1, done2 |-> done2]

\* ----------------------------------------------------------------- Init
Init ==
  /\ mounted = TRUE
  /\ cameraActive = FALSE /\ cameraError = NoError
  /\ torchEnabled = FALSE /\ torchSupported = FALSE
  /\ videoSrc = NULL /\ streamRef = NULL /\ trackRef = NULL
  /\ micActive = FALSE /\ micError = NoError /\ micRecording = FALSE
  /\ micStreamRef = NULL /\ micTrackRef = NULL
  /\ logs = <<>>
  /\ camPending = 0 /\ micPending = 0 /\ torchPending = EmptyBag
  /\ granted = 0 /\ live = {} /\ stopCalls = [t \in Streams |-> 0]
  /\ requests = 0
  /\ uncaught = FALSE

\* --------------------------------------------------------- video session
\* A startCamera with the audio session's counterpart of startMicrophone's
\* precondition: refused while the microphone is active or holds a stream.
StartCameraUnlessMic ==
  /\ mounted
  /\ IF micActive \/ micStreamRef # NULL
     THEN /\ Room(1)
          /\ logs' = addLog(logs, <<"Camera: Microphone is still active">>,
                            "error")
          /\ cameraError' = <<"Microphone must be stopped first">>
          /\ UNCHANGED <<camPending, requests>>
     ELSE /\ requests < MaxRequests /\ Room(1)
          /\ logs' = addLog(logs, <<"Camera: Requesting permission...">>,
                            "info")
          /\ cameraError' = NoError
          /\ camPending' = camPending + 1
          /\ requests' = requests + 1
  /\ UNCHANGED <<mounted, cameraActive, torchEnabled, torchSupported,
                 videoSrc, streamRef, trackRef, micVars, micPending,
                 torchPending, granted, live, stopCalls, uncaught>>

\* startCamera up to its await of getUserMedia (page.js:34-41).
StartCamera ==
  /\ mounted /\ requests < MaxRequests /\ Room(1)
  /\ logs' = addLog(logs, <<"Camera: Requesting permission...">>, "info")
  /\ cameraError' = NoError
  /\ camPending' = camPending + 1
  /\ requests' = requests + 1
  /\ UNCHANGED <<mounted, cameraActive, torchEnabled, torchSupported,
                 videoSrc, streamRef, trackRef, micVars, micPending,
                 torchPending, granted, live, stopCalls, uncaught>>

\* The log entries of startCamera's continuation for a capability set.
GrantedLog(caps) ==
  <<  <<<<"Camera: Permission granted, stream obtained">>, "success">> >>
  \o (CASE caps = "torch" ->
             << <<<<"Camera: Torch is supported">>, "success">> >>
        [] caps = "noTorch" ->
             << <<<<"Camera: Torch is not supported on this device">>,
                  "info">> >>
        [] OTHER -> <<>>)
  \o << <<<<"Camera: Video element source set">>, "success">> >>

\* startCamera after getUserMedia resolved (page.js:42-64).  After the
\* unmount the state setters do nothing and videoRef.current is null, but
\* the refs are still written.
CameraGrantedWith(caps) ==
    /\ camPending > 0 /\ granted < MaxRequests
    /\ camPending' = camPending - 1
    /\ granted' = granted + 1
    /\ live' = live \cup {granted + 1}
    /\ streamRef' = granted + 1
    /\ trackRef' = granted + 1
    /\ IF mounted
       THEN /\ Room(Len(GrantedLog(caps)))
            /\ logs' = addLogs(logs, GrantedLog(caps))
            /\ torchSupported' = (torchSupported \/ caps = "torch")
            /\ videoSrc' = granted + 1
            /\ cameraActive' = TRUE
       ELSE UNCHANGED <<logs, torchSupported, videoSrc, cameraActive>>
    /\ UNCHANGED <<mounted, cameraError, torchEnabled, micVars, micPending,
                   torchPending, stopCalls, uncaught, requests>>

CameraGranted == \E caps \in Capabilities : CameraGrantedWith(caps)

\* A startCamera catch that stores the error but leaves the active flag.
CameraRejectedKeepsActive ==
  \E reason \in Reasons :
    /\ camPending > 0
    /\ camPending' = camPending - 1
    /\ IF mounted
       THEN /\ Room(1)
            /\ logs' = addLog(logs,
                 <<"Camera: Permission denied or error occurred", reason>>,
                 "error")
            /\ cameraError' =
                 <<"Camera: Permission denied or error occurred", reason>>
            /\ UNCHANGED cameraActive
       ELSE UNCHANGED <<logs, cameraError, cameraActive>>
    /\ UNCHANGED <<mounted, torchEnabled, torchSupported, videoSrc,
                   streamRef, trackRef, micVars, micPending, torchPending,
                   granted, live, stopCalls, uncaught, requests>>

\* startCamera's catch after getUserMedia rejected (page.js:65-70).
CameraRejected ==
  \E reason \in Reasons :
    /\ camPending > 0
    /\ camPending' = camPending - 1
    /\ IF mounted
       THEN /\ Room(1)
            /\ logs' = addLog(logs,
                 <<"Camera: Permission denied or error occurred", reason>>,
                 "error")
            /\ cameraError' =
                 <<"Camera: Permission denied or error occurred", reason>>
            /\ cameraActive' = FALSE
       ELSE UNCHANGED <<logs, cameraError, cameraActive>>
    /\ UNCHANGED <<mounted, torchEnabled, torchSupported, videoSrc,
                   streamRef, trackRef, micVars, micPending, torchPending,
                   granted, live, stopCalls, uncaught, requests>>

\* The log entries of a stopCamera whose release went as r.
StopCameraLog(r, reason) ==
  << <<<<"Camera: Stopping camera...">>, "info">> >>
  \o (IF r.done1
      THEN << <<<<"Camera: Video track stopped">>, "success">> >>
      ELSE <<>>)
  \o (IF r.done2
      THEN << <<<<"Camera: Track reference stopped">>, "success">> >>
      ELSE <<>>)
  \o (IF r.threw
      THEN << <<<<"Camera: Error stopping", reason>>, "error">> >>
      ELSE << <<<<"Camera: Video element source cleared">>, "success">>,
              <<<<"Camera: Fully released">>, "success">> >>)

\* A stopCamera that leaves the stored error in place.
StopCameraResetKeepsError ==
  /\ videoSrc' = NULL
  /\ torchEnabled' = FALSE
  /\ torchSupported' = FALSE
  /\ cameraActive' = FALSE
  /\ UNCHANGED cameraError

\* The end of stopCamera's try block (page.js:94-105): detach the video
\* element and reset the torch flags, the active flag and the error.
StopCameraReset ==
  /\ videoSrc' = NULL
  /\ torchEnabled' = FALSE
  /\ torchSupported' = FALSE
  /\ cameraActive' = FALSE
  /\ cameraError' = NoError

\* stopCamera (page.js:74-111): it has no await, so it is one step.
StopCamera ==
  \E fail \in 0..2, reason \in StopReasons :
    LET r == Release(streamRef, trackRef, fail, live, stopCalls) IN
    /\ mounted /\ MayFail(streamRef, trackRef, fail)
    /\ Room(Len(StopCameraLog(r, reason)))
    /\ logs' = addLogs(logs, StopCameraLog(r, reason))
    /\ streamRef' = r.stream
    /\ trackRef' = r.track
    /\ live' = r.live
    /\ stopCalls' = r.stopCalls
    /\ IF r.threw
       THEN UNCHANGED <<videoSrc, torchEnabled, torchSupported,
                        cameraActive, cameraError>>
       ELSE StopCameraReset
    /\ UNCHANGED <<mounted, micVars, camPending, micPending, torchPending,
                   granted, uncaught, requests>>

\* A toggleTorch guard that forgets the torchSupported flag.
TorchUnavailableTrackOnly == trackRef = NULL

\* toggleTorch's guard (page.js:116): no track held, or torch unsupported.
TorchUnavailable == trackRef = NULL \/ ~torchSupported

\* toggleTorch up to its await of applyConstraints (page.js:114-124).  The
\* requested value is computed from torchEnabled before the await.
ToggleTorch ==
  /\ mounted
  /\ IF TorchUnavailable
     THEN /\ Room(1)
          /\ logs' = addLog(logs, <<"Camera: Torch not available">>, "error")
          /\ UNCHANGED <<torchPending, requests>>
     ELSE /\ requests < MaxRequests
          /\ torchPending' = torchPending (+) SetToBag({~torchEnabled})
          /\ requests' = requests + 1
          /\ UNCHANGED logs
  /\ UNCHANGED <<mounted, camVars, micVars, camPending, micPending, granted,
                 live, stopCalls, uncaught>>

\* toggleTorch after applyConstraints resolved (page.js:126-127).
TorchAccepted ==
  \E newTorchState \in BagToSet(torchPending) :
    /\ torchPending' = torchPending (-) SetToBag({newTorchState})
    /\ IF mounted
       THEN /\ Room(1)
            /\ torchEnabled' = newTorchState
            /\ logs' = addLog(logs,
                 IF newTorchState THEN <<"Camera: Torch enabled">>
                                  ELSE <<"Camera: Torch disabled">>,
                 "success")
       ELSE UNCHANGED <<torchEnabled, logs>>
    /\ UNCHANGED <<mounted, cameraActive, cameraError, torchSupported,
                   videoSrc, streamRef, trackRef, micVars, camPending,
                   micPending, granted, live, stopCalls,
                   uncaught, requests>>

\* toggleTorch's catch after applyConstraints rejected (page.js:128-131).
TorchRejected ==
  \E newTorchState \in BagToSet(torchPending), reason \in ConstraintReasons :
    /\ torchPending' = torchPending (-) SetToBag({newTorchState})
    /\ IF mounted
       THEN /\ Room(1)
            /\ logs' = addLog(logs, <<"Camera: Torch toggle error", reason>>,
                              "error")
       ELSE UNCHANGED logs
    /\ UNCHANGED <<mounted, camVars, micVars, camPending, micPending,
                   granted, live, stopCalls, uncaught, requests>>

\* --------------------------------------------------------- audio session
\* A startMicrophone precondition that reads the active flag only.
MicBlockedActiveOnly == cameraActive

\* startMicrophone's precondition (page.js:141): the camera is active or
\* its stream ref still holds a handle.
MicBlocked == cameraActive \/ streamRef # NULL

\* startMicrophone up to its return or its await (page.js:135-152).
StartMicrophone ==
  /\ mounted
  /\ IF MicBlocked
     THEN /\ Room(2)
          /\ logs' = addLogs(logs,
               << <<<<"Microphone: Requesting permission...">>, "info">>,
                  <<<<"Microphone: WARNING - Camera is still active">>,
                    "error">> >>)
          /\ micError' = <<"Camera must be stopped first">>
          /\ UNCHANGED <<micPending, requests>>
     ELSE /\ requests < MaxRequests /\ Room(2)
          /\ logs' = addLogs(logs,
               << <<<<"Microphone: Requesting permission...">>, "info">>,
                  <<<<"Microphone: Camera is not active">>, "success">> >>)
          /\ micError' = NoError
          /\ micPending' = micPending + 1
          /\ requests' = requests + 1
  /\ UNCHANGED <<mounted, camVars, micActive, micRecording, micStreamRef,
                 micTrackRef, camPending, torchPending, granted, live,
                 stopCalls, uncaught>>

\* A startMicrophone success path that marks the session active only.
MicGrantedActiveOnly ==
  /\ micPending > 0 /\ granted < MaxRequests
  /\ micPending' = micPending - 1
  /\ granted' = granted + 1
  /\ live' = live \cup {granted + 1}
  /\ micStreamRef' = granted + 1
  /\ micTrackRef' = granted + 1
  /\ IF mounted
     THEN /\ Room(2)
          /\ logs' = addLogs(logs,
               << <<<<"Microphone: Permission granted, stream obtained">>,
                    "success">>,
                  <<<<"Microphone: Recording started">>, "success">> >>)
          /\ micActive' = TRUE
     ELSE UNCHANGED <<logs, micActive>>
  /\ UNCHANGED <<mounted, camVars, micError, micRecording, camPending,
                 torchPending, stopCalls, uncaught, requests>>

\* startMicrophone after getUserMedia resolved (page.js:153-160).
MicGranted ==
  /\ micPending > 0 /\ granted < MaxRequests
  /\ micPending' = micPending - 1
  /\ granted' = granted + 1
  /\ live' = live \cup {granted + 1}
  /\ micStreamRef' = granted + 1
  /\ micTrackRef' = granted + 1
  /\ IF mounted
     THEN /\ Room(2)
          /\ logs' = addLogs(logs,
               << <<<<"Microphone: Permission granted, stream obtained">>,
                    "success">>,
                  <<<<"Microphone: Recording started">>, "success">> >>)
          /\ micActive' = TRUE
          /\ micRecording' = TRUE
     ELSE UNCHANGED <<logs, micActive, micRecording>>
  /\ UNCHANGED <<mounted, camVars, micError, camPending, torchPending,
                 stopCalls, uncaught, requests>>

\* startMicrophone's catch after getUserMedia rejected (page.js:161-167).
MicRejected ==
  \E reason \in Reasons :
    /\ micPending > 0
    /\ micPending' = micPending - 1
    /\ IF mounted
       THEN /\ Room(1)
            /\ logs' = addLog(logs,
                 <<"Microphone: Permission denied or error", reason>>,
                 "error")
            /\ micError' = <<"Microphone: Permission denied or error", reason>>
            /\ micActive' = FALSE
            /\ micRecording' = FALSE
       ELSE UNCHANGED <<logs, micError, micActive, micRecording>>
    /\ UNCHANGED <<mounted, camVars, micStreamRef, micTrackRef, camPending,
                   torchPending, granted, live, stopCalls,
                   uncaught, requests>>

\* The log entries of a stopMicrophone whose release went as r.
StopMicrophoneLog(r, reason) ==
  << <<<<"Microphone: Stopping recording...">>, "info">> >>
  \o (IF r.done1
      THEN << <<<<"Microphone: Audio track stopped">>, "success">> >>
      ELSE <<>>)
  \o (IF r.done2
      THEN << <<<<"Microphone: Track reference stopped">>, "success">> >>
      ELSE <<>>)
  \o (IF r.threw
      THEN << <<<<"Microphone: Error stopping", reason>>, "error">> >>
      ELSE << <<<<"Microphone: Fully released">>, "success">> >>)

\* stopMicrophone (page.js:171-199): no await, one step.
StopMicrophone ==
  \E fail \in 0..2, reason \in StopReasons :
    LET r == Release(micStreamRef, micTrackRef, fail, live, stopCalls) IN
    /\ mounted /\ MayFail(micStreamRef, micTrackRef, fail)
    /\ Room(Len(StopMicrophoneLog(r, reason)))
    /\ logs' = addLogs(logs, StopMicrophoneLog(r, reason))
    /\ micStreamRef' = r.stream
    /\ micTrackRef' = r.track
    /\ live' = r.live
    /\ stopCalls' = r.stopCalls
    /\ IF r.threw
       THEN UNCHANGED <<micRecording, micActive, micError>>
       ELSE /\ micRecording' = FALSE
            /\ micActive' = FALSE
            /\ micError' = NoError
    /\ UNCHANGED <<mounted, camVars, camPending, micPending, torchPending,
                   granted, uncaught, requests>>

\* ------------------------------------------------------------- lifecycle
\* The cleanup of the mount effect (page.js:202-221): the release sequence
\* for the camera refs, then for the microphone refs, with no try/catch: a
\* stop() that throws ends the cleanup there and leaves it uncaught.
\* React keeps no state for an unmounted component: the state variables are
\* discarded (here: back to their useState values, page.js:7-23) and later
\* setter calls do nothing, while the refs and the host's streams live on.
Unmount ==
  \E fc \in 0..2, fm \in 0..2 :
    LET rc == Release(streamRef, trackRef, fc, live, stopCalls)
        rm == Release(micStreamRef, micTrackRef, fm, rc.live, rc.stopCalls)
    IN
    /\ mounted
    /\ MayFail(streamRef, trackRef, fc)
    /\ MayFail(micStreamRef, micTrackRef, fm)
    /\ rc.threw => fm = 0
    /\ mounted' = FALSE
    /\ streamRef' = rc.stream
    /\ trackRef' = rc.track
    /\ IF rc.threw
       THEN /\ live' = rc.live
            /\ stopCalls' = rc.stopCalls
            /\ uncaught' = TRUE
            /\ UNCHANGED <<micStreamRef, micTrackRef>>
       ELSE /\ live' = rm.live
            /\ stopCalls' = rm.stopCalls
            /\ micStreamRef' = rm.stream
            /\ micTrackRef' = rm.track
            /\ uncaught' = (uncaught \/ rm.threw)
    /\ cameraActive' = FALSE /\ cameraError' = NoError
    /\ torchEnabled' = FALSE /\ torchSupported' = FALSE /\ videoSrc' = NULL
    /\ micActive' = FALSE /\ micError' = NoError /\ micRecording' = FALSE
    /\ logs' = <<>>
    /\ UNCHANGED <<camPending, micPending, torchPending, granted, requests>>

\* ------------------------------------------------------------- event log
\* A clearLogs whose append reads the log of the render (no functional
\* update), so the emptying is lost.
ClearLogsStale ==
  /\ mounted
  /\ logs' = addLog(logs, <<"Logs cleared">>, "info")
  /\ UNCHANGED <<mounted, camVars, micVars, hostVars, uncaught, requests>>

\* clearLogs (page.js:224-227): setLogs([]) and then addLog's functional
\* update, applied in that order to the emptied log.
ClearLogs ==
  /\ mounted
  /\ logs' = addLog(<<>>, <<"Logs cleared">>, "info")
  /\ UNCHANGED <<mounted, camVars, micVars, hostVars, uncaught, requests>>

Next ==
  \/ StartCamera
  \/ CameraGranted
  \/ CameraRejected
  \/ StopCamera
  \/ ToggleTorch
  \/ TorchAccepted
  \/ TorchRejected
  \/ StartMicrophone
  \/ MicGranted
  \/ MicRejected
  \/ StopMicrophone
  \/ Unmount
  \/ ClearLogs

Spec == Init /\ [][Next]_vars

\* ------------------------------------------------ the page's buttons
\* The handlers as the rendered page lets the user invoke them: each button
\* is disabled by the flags of the current render.

\* The Camera ON button (page.js:270-272).
CameraOnClick == ~cameraActive /\ StartCamera

\* The Camera OFF button (page.js:282-284).
CameraOffClick == cameraActive /\ StopCamera

\* The flash button (page.js:294-296).
TorchClick == ~(~cameraActive \/ ~torchSupported) /\ ToggleTorch

\* The Microphone ON button (page.js:337-339).
MicOnClick == ~(micRecording \/ cameraActive) /\ StartMicrophone

\* The Microphone OFF button (page.js:349-351).
MicOffClick == ~(~micRecording) /\ StopMicrophone

\* The Clear button (page.js:375-377) is never disabled.
ClearClick == ClearLogs

NextUI ==
  \/ CameraOnClick
  \/ CameraGranted
  \/ CameraRejected
  \/ CameraOffClick
  \/ TorchClick
  \/ TorchAccepted
  \/ TorchRejected
  \/ MicOnClick
  \/ MicGranted
  \/ MicRejected
  \/ MicOffClick
  \/ Unmount
  \/ ClearClick

SpecUI == Init /\ [][NextUI]_vars

\* ================================================================ claims
Entry(message, type) == [message |-> message, type |-> type]

Last(l) == l[Len(l)]

NoRequestInFlight ==
  camPending = 0 /\ micPending = 0 /\ torchPending = EmptyBag

CameraIdle == ~cameraActive /\ streamRef = NULL /\ trackRef = NULL

MicIdle == ~micActive /\ micStreamRef = NULL /\ micTrackRef = NULL

BlockedStartMicrophone ==
  (cameraActive \/ streamRef # NULL) /\ StartMicrophone

\* C1: while the component is mounted, a session's active flag is true iff
\* the most recent start of that session succeeded and no stop of it has
\* occurred since.  Stated step by step: a start that succeeds sets the
\* flag, a start that fails (rejected by the host, or refused by the audio
\* precondition) and a stop clear it, and no other step changes it.
C1_ActiveIffLastStartSucceeded ==
  [][ mounted' =>
        /\ CameraGranted => cameraActive'
        /\ (CameraRejected \/ StopCamera) => ~cameraActive'
        /\ ~(CameraGranted \/ CameraRejected \/ StopCamera)
             => cameraActive' = cameraActive
        /\ MicGranted => micActive'
        /\ (MicRejected \/ StopMicrophone \/ BlockedStartMicrophone)
             => ~micActive'
        /\ ~(MicGranted \/ MicRejected \/ StopMicrophone
             \/ BlockedStartMicrophone)
             => micActive' = micActive ]_vars

C3_ActiveImpliesRefs ==
  mounted =>
    /\ cameraActive => (streamRef # NULL /\ trackRef # NULL)
    /\ micActive => (micStreamRef # NULL /\ micTrackRef # NULL)

\* C4: while the component is mounted, torchEnabled is true only if
\* torchSupported is true and the camera is active.
C4_TorchEnabledOnlyIfSupportedAndActive ==
  mounted => (torchEnabled => (torchSupported /\ cameraActive))

\* C5: once the cleanup has run to its end and every pending host request
\* has completed, no granted stream is left unreleased.
C5_TeardownReleasesInFlightStart ==
  (~mounted /\ ~uncaught /\ NoRequestInFlight) => live = {}

\* C6: stop() is invoked at most once on any track.
C6_ReleasedExactlyOnce ==
  \A t \in Streams : stopCalls[t] <= 1

\* C7 (as stated): stopCamera / stopMicrophone on a session that is inactive
\* and holds no handle leaves the session state unchanged and does not
\* throw.
C7_StopInactiveIsNoOp ==
  [][ /\ (CameraIdle /\ StopCamera) =>
            /\ UNCHANGED <<cameraActive, cameraError, streamRef, trackRef,
                           torchEnabled, torchSupported>>
            /\ uncaught' = uncaught
      /\ (MicIdle /\ StopMicrophone) =>
            /\ UNCHANGED <<micActive, micError, micRecording, micStreamRef,
                           micTrackRef>>
            /\ uncaught' = uncaught ]_vars

CameraReset ==
  /\ CameraIdle /\ cameraError = NoError /\ ~torchEnabled /\ ~torchSupported

MicReset == MicIdle /\ micError = NoError /\ ~micRecording

\* C7 (amended): stopCamera / stopMicrophone on a session that is inactive
\* and holds no handle does not throw and leaves the session reset: active
\* flag false, references null, torch flags and recording flag false, and
\* the stored error cleared; a further stop leaves that state unchanged.
C7_StopInactiveResets ==
  [][ /\ (CameraIdle /\ StopCamera) => (CameraReset' /\ uncaught' = uncaught)
      /\ (CameraReset /\ StopCamera) =>
            UNCHANGED <<cameraActive, cameraError, streamRef, trackRef,
                        torchEnabled, torchSupported>>
      /\ (MicIdle /\ StopMicrophone) => (MicReset' /\ uncaught' = uncaught)
      /\ (MicReset /\ StopMicrophone) =>
            UNCHANGED <<micActive, micError, micRecording, micStreamRef,
                        micTrackRef>> ]_vars

\* C7 witness: stopCamera has run on a session that never held a stream and
\* stored the error of a rejected start, and the error is gone.
C7_Witness ==
  /\ mounted /\ granted = 0 /\ CameraReset
  /\ \E i \in 1..Len(logs) :
       /\ i + 3 = Len(logs)
       /\ logs[i].type = "error"
       /\ logs[i].message[1] = "Camera: Permission denied or error occurred"
       /\ logs[i + 1].message = <<"Camera: Stopping camera...">>
       /\ logs[i + 3].message = <<"Camera: Fully released">>

\* C8: after stopCamera / stopMicrophone, the session's stream ref and track
\* ref are both null, whether or not a track's stop() threw.
C8_StopNullsBothRefs ==
  [][ /\ StopCamera => (streamRef' = NULL /\ trackRef' = NULL)
      /\ StopMicrophone => (micStreamRef' = NULL /\ micTrackRef' = NULL)
    ]_vars

\* C9: toggleTorch invoked while torchSupported is false or no track is held
\* leaves torchEnabled unchanged, makes no host request and appends exactly
\* the error entry 'Camera: Torch not available'; and a successful start
\* whose capability set lacks the torch key leaves torchSupported and
\* torchEnabled as they were.
C9_UnavailableTorchRejected ==
  [][ /\ ((~torchSupported \/ trackRef = NULL) /\ ToggleTorch) =>
            /\ torchEnabled' = torchEnabled
            /\ torchSupported' = torchSupported
            /\ torchPending' = torchPending
            /\ requests' = requests
            /\ logs' = Append(logs,
                         Entry(<<"Camera: Torch not available">>, "error"))
      /\ (mounted /\ CameraGrantedWith("noTorch")) =>
            /\ torchSupported' = torchSupported
            /\ torchEnabled' = torchEnabled ]_vars

\* C9 witness: the camera is active on a track without torch support and a
\* toggle attempt has just been rejected.
C9_Witness ==
  /\ mounted /\ cameraActive /\ trackRef # NULL
  /\ ~torchSupported /\ ~torchEnabled
  /\ logs # <<>>
  /\ Last(logs) = Entry(<<"Camera: Torch not available">>, "error")

\* C10: immediately after clearLogs the log holds exactly one entry, the
\* info entry 'Logs cleared', whatever it held before.
C10_ClearLogsLeavesOneEntry ==
  [][ ClearLogs =>
        /\ Len(logs') = 1
        /\ logs'[1] = Entry(<<"Logs cleared">>, "info") ]_vars

\* C10 witness: the log holds the single 'Logs cleared' entry although the
\* camera was started, and so logged, before.
C10_Witness ==
  /\ mounted /\ cameraActive
  /\ logs = << Entry(<<"Logs cleared">>, "info") >>

\* C11: when the host rejects a session's start request, the session ends
\* inactive, its error field holds the message with the host's reason,
\* exactly one error entry with that message is appended to the log, and the
\* start is over: no request is left or added for it.
C11_RejectedStart ==
  [][ mounted =>
        /\ CameraRejected =>
             /\ ~cameraActive'
             /\ \E reason \in Reasons :
                  /\ cameraError' =
                       <<"Camera: Permission denied or error occurred",
                         reason>>
                  /\ logs' = Append(logs, Entry(cameraError', "error"))
             /\ camPending' = camPending - 1
             /\ requests' = requests
        /\ MicRejected =>
             /\ ~micActive'
             /\ \E reason \in Reasons :
                  /\ micError' =
                       <<"Microphone: Permission denied or error", reason>>
                  /\ logs' = Append(logs, Entry(micError', "error"))
             /\ micPending' = micPending - 1
             /\ requests' = requests ]_vars

\* C11 witness: a rejected start of the camera was the second of two starts
\* in flight, the first of which had made the session active.
C11_Witness ==
  /\ mounted /\ ~cameraActive /\ streamRef # NULL /\ camPending = 0
  /\ cameraError # NoError
  /\ logs # <<>>
  /\ Last(logs) = Entry(cameraError, "error")

\* The last log entry is the error entry of a failed release.
StopThrew(l, text) ==
  /\ l # <<>>
  /\ Last(l).type = "error"
  /\ Last(l).message[1] = text

\* C12: every failure of a host call in a start, a stop or a toggleTorch is
\* caught there: the step ends with an error log entry and with a stored error
\* string in that session's error field (cameraError or micError), and
\* nothing propagates uncaught.
C12_FailuresLoggedAndStored ==
  [][ mounted =>
        /\ ( \/ CameraRejected
             \/ TorchRejected
             \/ (StopCamera /\ StopThrew(logs', "Camera: Error stopping")) )
           => /\ Len(logs') > Len(logs)
              /\ Last(logs').type = "error"
              /\ cameraError' # NoError
              /\ uncaught' = uncaught
        /\ ( \/ MicRejected
             \/ (StopMicrophone
                 /\ StopThrew(logs', "Microphone: Error stopping")) )
           => /\ Len(logs') > Len(logs)
              /\ Last(logs').type = "error"
              /\ micError' # NoError
              /\ uncaught' = uncaught ]_vars

\* C13: a toggleTorch invoked with the session active and the torch supported
\* requests the opposite of the current torchEnabled; an accepted request
\* makes torchEnabled the requested value, and every accepted toggle flips
\* the flag (so n accepted toggles from disabled leave it enabled exactly
\* when n is odd); a rejected request leaves torchEnabled and torchSupported
\* unchanged and appends one error entry.
C13_AcceptedToggleFlips ==
  [][ mounted =>
        /\ (cameraActive /\ torchSupported /\ trackRef # NULL /\ ToggleTorch)
           => /\ torchPending' = torchPending (+) SetToBag({~torchEnabled})
              /\ UNCHANGED <<torchEnabled, torchSupported, logs>>
        /\ TorchAccepted
           => /\ torchEnabled' \in BagToSet(torchPending)
              /\ torchEnabled' = ~torchEnabled
        /\ TorchRejected
           => /\ UNCHANGED <<torchEnabled, torchSupported>>
              /\ Len(logs') = Len(logs) + 1
              /\ Last(logs').type = "error"
              /\ Last(logs').message[1] = "Camera: Torch toggle error"
    ]_vars

\* The last log entry says that a stop ran to its end.
StopCompleted(l, text) == l # <<>> /\ Last(l) = Entry(<<text>>, "success")

\* C14: after a stop that completes successfully the session is fully reset
\* (video: cameraActive false, cameraError null, both torch flags false, the
\* display source null, both references null; audio: micActive and
\* micRecording false, micError null, both references null), and a stored
\* error is gone after the next start or stop of that session that succeeds.
C14_SuccessClearsSession ==
  [][ mounted =>
        /\ (StopCamera /\ StopCompleted(logs', "Camera: Fully released"))
           => /\ ~cameraActive' /\ cameraError' = NoError
              /\ ~torchEnabled' /\ ~torchSupported'
              /\ videoSrc' = NULL /\ streamRef' = NULL /\ trackRef' = NULL
        /\ (StopMicrophone
            /\ StopCompleted(logs', "Microphone: Fully released"))
           => /\ ~micActive' /\ ~micRecording' /\ micError' = NoError
              /\ micStreamRef' = NULL /\ micTrackRef' = NULL
        /\ CameraGranted => cameraError' = NoError
        /\ MicGranted => micError' = NoError ]_vars

\* C15: in every reachable state the audio session's two flags are equal:
\* micActive is true exactly when micRecording is true.
C15_MicActiveEqualsRecording == micActive = micRecording

\* C15 witness: a granted startMicrophone has set both flags, and a later
\* startMicrophone was refused without touching either.
C15_Witness ==
  /\ mounted /\ micActive /\ micRecording
  /\ micError = <<"Camera must be stopped first">>

\* C16: with the handlers invoked through the page's buttons only, two starts
\* of the same session never overlap: no session ever has more than one
\* start request awaiting the host's answer.
C16_NoOverlappingStarts == camPending <= 1 /\ micPending <= 1

\* l is an initial segment of m.
IsPrefix(l, m) == Len(l) <= Len(m) /\ SubSeq(m, 1, Len(l)) = l

\* C17: between clears the log is append-only: every step of the mounted
\* page other than clearLogs leaves the existing entries in place and in
\* order and adds new entries only at the end, one per addLog call (a
\* rejected start adds exactly one); only clearLogs removes entries.
C17_LogAppendOnly ==
  [][ mounted' =>
        /\ IsPrefix(logs, logs') \/ ClearLogs
        /\ (CameraRejected \/ MicRejected \/ TorchAccepted \/ TorchRejected
            \/ StartCamera)
           => Len(logs') = Len(logs) + 1 ]_vars

\* C17 witness: the continuation of a granted startCamera has appended its
\* entries behind the entry written before the await.
C17_Witness ==
  /\ mounted /\ Len(logs) = 4
  /\ logs[1] = Entry(<<"Camera: Requesting permission...">>, "info")
  /\ logs[2] = Entry(<<"Camera: Permission granted, stream obtained">>,
                     "success")
  /\ Last(logs) = Entry(<<"Camera: Video element source set">>, "success")

\* C18: the exclusion between the sessions goes one way.  Every startCamera
\* issues its host request and clears cameraError, whatever the audio
\* session's flags and references are, and leaves the audio session alone;
\* a startMicrophone invoked while the video session is active issues no
\* request and leaves micActive unchanged.
C18_ExclusionOneWay ==
  [][ /\ StartCamera
         => /\ camPending' = camPending + 1
            /\ requests' = requests + 1
            /\ cameraError' = NoError
            /\ UNCHANGED micVars
      /\ (cameraActive /\ StartMicrophone)
         => /\ micPending' = micPending
            /\ requests' = requests
            /\ micActive' = micActive ]_vars

\* C18 witness: both sessions are active, and the log since the last clear
\* holds exactly one startCamera from its request to its success: the video
\* session was started while the audio session was already active.
C18_Witness ==
  /\ mounted /\ cameraActive /\ micActive
  /\ streamRef > micStreamRef /\ micStreamRef # NULL
  /\ Len(logs) = 5
  /\ logs[1] = Entry(<<"Logs cleared">>, "info")
  /\ logs[2] = Entry(<<"Camera: Requesting permission...">>, "info")
  /\ logs[3] = Entry(<<"Camera: Permission granted, stream obtained">>,
                     "success")
  /\ logs[5] = Entry(<<"Camera: Video element source set">>, "success")

\* C19: in every reachable state of the mounted page in which a session's
\* active flag is false and no start of that session is in flight, the
\* session holds no handle: its stream and track references are null.
C19_InactiveHoldsNoHandle ==
  mounted =>
    /\ (~cameraActive /\ camPending = 0)
       => (streamRef = NULL /\ trackRef = NULL)
    /\ (~micActive /\ micPending = 0)
       => (micStreamRef = NULL /\ micTrackRef = NULL)

\* C20: in every reachable state of the mounted page, every stream the host
\* has granted and that has not been released is still referenced by a
\* session: no start overwrites a held reference with a new stream without
\* releasing the old one.
C20_GrantedStreamReferencedOrReleased ==
  mounted =>
    \A s \in live : s \in {streamRef, trackRef, micStreamRef, micTrackRef}

====
